---- MODULE Spec2Model ----
(***************************************************************************)
(* A model of the webplanner backend: the FastAPI handlers of              *)
(* backend/main.py over the MongoDB collections driven by DBManager        *)
(* (backend/database.py), with the request models of backend/models.py.    *)
(*                                                                         *)
(* Encodings.  Python None is the integer None (-1).  Strings that only    *)
(* travel (titles) are modelled by their length.  A uuid4 string is the    *)
(* number of the draw that produced it, the empty string is EmptyToken.    *)
(* An ObjectId is the number of the insert that produced it; the string    *)
(* of a path parameter is the ObjectId it spells, or a number below 1 when *)
(* it is not 24 hex digits.  A datetime is a count of hours.  A task's      *)
(* attachment is the file identity it points at; a subtask is the record   *)
(* [subtask_id, title, done].  A date string is the triple of numbers its  *)
(* digits spell, a view string is itself.                                  *)
(***************************************************************************)
EXTENDS Integers, Sequences, FiniteSets, TLC

\* ------------------------------------------------------------- bounds
MaxUuid == 3
MaxOid == 2
MaxTime == 1

\* ---------------------------------------------------------- constants
None == 0 - 1
EmptyToken == 0
PriorityDefault == 3
PriorityMin == 1
PriorityMax == 5
TitleMinLength == 1
TitleMaxLength == 200

Usernames == {"alice", "bob"}
Passwords == {"pw1"}
LoginPasswords == {"pw1", "bad"}
Workers == {"w1", "w2"}

VARIABLES
    users,      \* the users collection, a sequence in natural (insertion) order
    tasks,      \* the tasks collection, a set of documents
    files,      \* the file records, a set of documents
    disk,       \* the paths that exist under uploads/
    nextUuid,   \* the number of the next uuid4 draw
    nextOid,    \* the number of the next ObjectId of the tasks collection
    now,        \* the last reading of the clock
    issued,     \* the tokens the login responses have handed out: token -> user _id
    wpc,        \* each worker's position in a registration request
    wreq,       \* the registration request a worker is serving
    resp        \* the last response sent, with the request it answers

vars == <<users, tasks, files, disk, nextUuid, nextOid, now, issued, wpc, wreq, resp>>

\* ------------------------------------------------------------ helpers
Min(S) == CHOOSE x \in S : \A y \in S : x <= y

Max(S) == CHOOSE x \in S : \A y \in S : x >= y

\* dict.pop(k, None)
Pop(d, k) == [f \in DOMAIN d \ {k} |-> d[f]]

\* d[k] = v
Put(d, k, v) == [f \in DOMAIN d \cup {k} |-> IF f = k THEN v ELSE d[f]]

\* dict.setdefault(k, v)
SetDefault(d, k, v) == IF k \in DOMAIN d THEN d ELSE Put(d, k, v)

\* MongoDB's {"$set": updates} on one document
MongoSet(doc, updates) ==
    [f \in DOMAIN doc \cup DOMAIN updates |->
        IF f \in DOMAIN updates THEN updates[f] ELSE doc[f]]

\* A reading of the clock: not before the last one, and at most one tick later.
ClockReads(t) == {u \in t..MaxTime : u <= t + 1}

\* A response, with the request it answers: the handler, the user_token and the
\* id of the request, the user the token resolved to, the time it was served.
Response(op, token, user, id, result, at, list) ==
    [op |-> op, token |-> token, user |-> user, id |-> id, result |-> result,
     at |-> at, list |-> list]

NotFoundOrForeign == "Task not found (or not yours)"

Unauthenticated == "User token is incorrect"

\* ----------------------------------------------------- services/hash_utils
hash_password(password) == <<"sha256", password>>

check_password(password, stored_hash) == hash_password(password) = stored_hash

\* ------------------------------------------------------ DBManager: users
\* find_one: the first matching document in natural order, or None
get_user(username) ==
    LET S == {i \in 1..Len(users) : users[i].username = username}
    IN IF S = {} THEN None ELSE Min(S)

get_user_by_token(token) ==
    LET S == {i \in 1..Len(users) : users[i].token = token}
    IN IF S = {} THEN None ELSE Min(S)

create_user_doc(username, password) ==
    [username |-> username, password_hash |-> hash_password(password), token |-> EmptyToken]

\* update_one({"username": username}, {"$set": {"token": token}}) on the first match
update_user_token_keep(username, token) ==
    LET u == get_user(username)
    IN IF u = None \/ users[u].token # EmptyToken THEN users
       ELSE [users EXCEPT ![u].token = token]

update_user_token(username, token) ==
    LET u == get_user(username)
    IN IF u = None THEN users ELSE [users EXCEPT ![u].token = token]

\* ------------------------------------------------------------ Init
Init ==
    /\ users = <<>>
    /\ tasks = {}
    /\ files = {}
    /\ disk = {}
    /\ nextUuid = 1
    /\ nextOid = 1
    /\ now = 0
    /\ issued = <<>>
    /\ wpc = [w \in Workers |-> "idle"]
    /\ wreq = [w \in Workers |-> None]
    /\ resp = Response("none", None, None, None, "none", 0, <<>>)

\* The store once alice and bob have registered and logged in, in that order
\* (a state SpecAuth reaches): the state the task requests below start from.
InitSession ==
    /\ users = << [create_user_doc("alice", "pw1") EXCEPT !.token = 1],
                  [create_user_doc("bob", "pw1") EXCEPT !.token = 2] >>
    /\ tasks = {}
    /\ files = {}
    /\ disk = {}
    /\ nextUuid = 3
    /\ nextOid = 1
    /\ now = 0
    /\ issued = (1 :> 1 @@ 2 :> 2)
    /\ wpc = [w \in Workers |-> "idle"]
    /\ wreq = [w \in Workers |-> None]
    /\ resp = Response("login", None, 2, 2, "ok", 0, <<>>)

\* --------------------------------------------------- POST /registration
\* The whole handler served by one worker with no other request in flight.
Registration(username, password) ==
    /\ \A w \in Workers : wpc[w] = "idle"
    /\ IF get_user(username) # None
       THEN /\ users' = users
            /\ resp' = Response("registration", None, None, None, "User already exists", now, <<>>)
       ELSE /\ users' = Append(users, create_user_doc(username, password))
            /\ resp' = Response("registration", None, Len(users) + 1, None, "ok", now, <<>>)
    /\ UNCHANGED <<tasks, files, disk, nextUuid, nextOid, now, issued, wpc, wreq>>

\* The same handler as the worker pool runs it: create_user's lookup
\* (get_user) and its insert_one are two round trips to the store.
RegCheck(w, username, password) ==
    /\ wpc[w] = "idle"
    /\ IF get_user(username) # None
       THEN /\ resp' = Response("registration", None, None, None, "User already exists", now, <<>>)
            /\ UNCHANGED <<wpc, wreq>>
       ELSE /\ wpc' = [wpc EXCEPT ![w] = "insert"]
            /\ wreq' = [wreq EXCEPT ![w] = [username |-> username, password |-> password]]
            /\ resp' = Response("registration_lookup", None, None, None, "absent", now, <<>>)
    /\ UNCHANGED <<users, tasks, files, disk, nextUuid, nextOid, now, issued>>

RegInsert(w) ==
    /\ wpc[w] = "insert"
    /\ users' = Append(users, create_user_doc(wreq[w].username, wreq[w].password))
    /\ wpc' = [wpc EXCEPT ![w] = "idle"]
    /\ wreq' = [wreq EXCEPT ![w] = None]
    /\ resp' = Response("registration", None, Len(users) + 1, None, "ok", now, <<>>)
    /\ UNCHANGED <<tasks, files, disk, nextUuid, nextOid, now, issued>>

\* ------------------------------------------------------------ POST /login
Login(username, password) ==
    /\ LET user == get_user(username) IN
       IF user = None
       THEN /\ resp' = Response("login", None, None, None, "User not found", now, <<>>)
            /\ UNCHANGED <<users, nextUuid, issued>>
       ELSE IF ~check_password(password, users[user].password_hash)
       THEN /\ resp' = Response("login", None, user, None, "Incorrect password", now, <<>>)
            /\ UNCHANGED <<users, nextUuid, issued>>
       ELSE /\ nextUuid <= MaxUuid
            /\ users' = update_user_token(users[user].username, nextUuid)
            /\ nextUuid' = nextUuid + 1
            /\ issued' = issued @@ (nextUuid :> user)
            /\ resp' = Response("login", None, user, nextUuid, "ok", now, <<>>)
    /\ UNCHANGED <<tasks, files, disk, nextOid, now, wpc, wreq>>

\* ------------------------------------------------------------ models.py
\* The declared fields of TaskCreate and TaskUpdate; pydantic ignores the
\* other keys of a request body.
TaskCreateFields ==
    {"title", "priority", "due_date", "description", "tags", "comment", "subtasks",
     "attachment"}

TaskUpdateFields_created_at == TaskCreateFields \cup {"done", "created_at"}

TaskUpdateFields == TaskCreateFields \cup {"done"}

TaskCreateDefaults ==
    [title |-> None, priority |-> PriorityDefault, due_date |-> None,
     description |-> None, tags |-> <<>>, comment |-> None, subtasks |-> <<>>,
     attachment |-> None]

TitleOk(v) == TitleMinLength <= v /\ v <= TitleMaxLength

PriorityOk(v) == PriorityMin <= v /\ v <= PriorityMax

\* TaskCreate(**body) validates: title is required, priority is an int in range.
TaskCreateValid(body) ==
    /\ "title" \in DOMAIN body
    /\ TitleOk(body["title"])
    /\ "priority" \in DOMAIN body => PriorityOk(body["priority"])

\* payload.model_dump(): every declared field, defaults for the absent ones
TaskCreateDump(body) ==
    [f \in TaskCreateFields |-> IF f \in DOMAIN body THEN body[f] ELSE TaskCreateDefaults[f]]

\* TaskUpdate(**body) validates: every field is Optional, the constraints
\* apply to a value that is not None.
TaskUpdateValid(body) ==
    /\ "title" \in DOMAIN body => (body["title"] = None \/ TitleOk(body["title"]))
    /\ "priority" \in DOMAIN body => (body["priority"] = None \/ PriorityOk(body["priority"]))

\* payload.model_dump(exclude_unset=True): the declared fields the body set
TaskUpdateDump(body) ==
    [f \in DOMAIN body \cap TaskUpdateFields |-> body[f]]

\* -------------------------------------------------------------- datetime
\* The proleptic Gregorian calendar of Python's datetime module.
IsLeap(y) == (y % 4 = 0) /\ ((y % 100 # 0) \/ (y % 400 = 0))

DaysInMonth(y, m) ==
    IF m = 2 THEN (IF IsLeap(y) THEN 29 ELSE 28)
    ELSE IF m \in {4, 6, 9, 11} THEN 30 ELSE 31

DaysBeforeYear(y) ==
    (y - 1) * 365 + ((y - 1) \div 4) - ((y - 1) \div 100) + ((y - 1) \div 400)

RECURSIVE DaysBeforeMonth(_, _)
DaysBeforeMonth(y, m) ==
    IF m = 1 THEN 0 ELSE DaysBeforeMonth(y, m - 1) + DaysInMonth(y, m - 1)

\* date.toordinal(): 0001-01-01 is day 1
ToOrdinal(y, m, d) == DaysBeforeYear(y) + DaysBeforeMonth(y, m) + d

\* A datetime, as the hours since 0001-01-01T00:00 less 24
Instant(y, m, d, h) == ToOrdinal(y, m, d) * 24 + h

\* A date string is <<year, month, day>> as its digits spell them, or <<>> when it
\* is not of the shape dddd-dd-dd.
DateShapeOk(date_str) == Len(date_str) = 3

\* datetime.strptime(date_str, "%Y-%m-%d") raises ValueError unless this holds
StrptimeOk(date_str) ==
    /\ DateShapeOk(date_str)
    /\ date_str[1] \in 1..9999
    /\ date_str[2] \in 1..12
    /\ date_str[3] \in 1..DaysInMonth(date_str[1], date_str[2])

ViewPatternOk(view) == view \in {"day", "week", "month", "year"}

\* str.lower() on the view strings of the model
LowerCase == [Month |-> "month", DAY |-> "day"]

Lower(view) == IF view \in DOMAIN LowerCase THEN LowerCase[view] ELSE view

\* view = (view or "day").lower()
NormalView(view) == IF view = "" THEN "day" ELSE Lower(view)

\* datetime.MAXYEAR: replace(year=...) raises ValueError above it
MaxYear == 9999

\* every view read as the month view
ViewRange_fallback(view, date_str) ==
    [result |-> "ok",
     start |-> Instant(date_str[1], date_str[2], 1, 0),
     end |-> IF date_str[2] = 12 THEN Instant(date_str[1] + 1, 1, 1, 0)
             ELSE Instant(date_str[1], date_str[2] + 1, 1, 0)]

\* The range of a (lower-cased) view: database.py imports datetime alone, so the
\* name timedelta of the day and week branches is not defined.
ViewRange(view, date_str) ==
    LET y == date_str[1]
        m == date_str[2]
    IN IF view \in {"day", "week"}
       THEN [result |-> "NameError", start |-> None, end |-> None]
       ELSE IF view = "month"
       THEN IF m = 12 /\ y + 1 > MaxYear
            THEN [result |-> "ValueError", start |-> None, end |-> None]
            ELSE [result |-> "ok",
                  start |-> Instant(y, m, 1, 0),
                  end |-> IF m = 12 THEN Instant(y + 1, 1, 1, 0) ELSE Instant(y, m + 1, 1, 0)]
       ELSE IF view = "year"
       THEN IF y + 1 > MaxYear
            THEN [result |-> "ValueError", start |-> None, end |-> None]
            ELSE [result |-> "ok", start |-> Instant(y, 1, 1, 0), end |-> Instant(y + 1, 1, 1, 0)]
       ELSE [result |-> "unknown", start |-> None, end |-> None]

\* find(query).sort("due_date", 1): ascending due date, equal dates in insertion order
RECURSIVE SortByDueDate(_)
SortByDueDate(S) ==
    IF S = {} THEN <<>>
    ELSE LET d == CHOOSE d \in S : \A e \in S :
                     \/ d["due_date"] < e["due_date"]
                     \/ (d["due_date"] = e["due_date"] /\ d["_id"] <= e["_id"])
         IN <<d["_id"]>> \o SortByDueDate(S \ {d})

\* get_tasks_view: the _ids of the documents returned, in order; an exception
\* leaves the method as it was raised
get_tasks_view(user_id, view, date_str) ==
    IF ~StrptimeOk(date_str) THEN [result |-> "ok", list |-> <<>>]
    ELSE LET r == ViewRange(NormalView(view), date_str) IN
         IF r.result = "unknown" THEN [result |-> "ok", list |-> <<>>]
         ELSE IF r.result # "ok" THEN [result |-> r.result, list |-> <<>>]
         ELSE [result |-> "ok",
               list |-> SortByDueDate({d \in tasks :
                            /\ d["user_id"] = user_id
                            /\ d["due_date"] # None
                            /\ d["due_date"] >= r.start
                            /\ d["due_date"] < r.end})]

\* DBManager.get_tasks_view called as it is, not through the handler's patterns
GetTasksView(user_id, view, date_str) ==
    /\ LET r == get_tasks_view(user_id, view, date_str) IN
       resp' = Response("get_tasks_view", None, user_id, <<view, date_str>>, r.result, now, r.list)
    /\ UNCHANGED <<users, tasks, files, disk, nextUuid, nextOid, now, issued, wpc, wreq>>

\* The range computation of get_tasks_view alone: the answer lists start and end
ViewResolve(view, date_str) ==
    /\ IF ~StrptimeOk(date_str)
       THEN resp' = Response("resolve", None, None, <<view, date_str>>, "no range", now, <<>>)
       ELSE LET r == ViewRange(NormalView(view), date_str) IN
            resp' = Response("resolve", None, None, <<view, date_str>>, r.result, now,
                             IF r.result = "ok" THEN <<r.start, r.end>> ELSE <<>>)
    /\ UNCHANGED <<users, tasks, files, disk, nextUuid, nextOid, now, issued, wpc, wreq>>

\* ------------------------------------------------------ DBManager: tasks
\* ObjectId(task_id) raises InvalidId unless the string is 24 hex digits
ObjectIdValid_any(task_id) == TRUE

ObjectIdValid(task_id) == task_id >= 1

InvalidId == "Invalid task_id"

\* create_task: the document handed to insert_one; t1 and t2 are the two
\* readings of the clock (_dt_now_iso) its setdefault calls make.
create_task_doc(user_id, task_data, t1, t2) ==
    LET d1 == Put(task_data, "user_id", user_id)
        d2 == SetDefault(d1, "done", FALSE)
        d3 == SetDefault(d2, "created_at", t1)
    IN SetDefault(d3, "updated_at", t2)

\* insert_one gives the document an _id unless it has one
insert_one(doc, oid) == SetDefault(doc, "_id", oid)

\* edit_task: the $set document
edit_task_updates_setnone(updates, t) ==
    Put(Put(updates, "user_id", None), "updated_at", t)

edit_task_updates(updates, t) ==
    Put(Pop(Pop(updates, "user_id"), "_id"), "updated_at", t)

\* the filter {"_id": oid, "user_id": user_id} of update_one
edit_task_filter_any_owner(oid, user_id) ==
    {d \in tasks : d["_id"] = oid}

edit_task_filter(oid, user_id) ==
    {d \in tasks : d["_id"] = oid /\ d["user_id"] = user_id}

\* the filter {"_id": oid, "user_id": user_id} of delete_one
delete_task_filter(oid, user_id) ==
    {d \in tasks : d["_id"] = oid /\ d["user_id"] = user_id}

\* update_one: the first matching document is changed
update_one(matched, updates) ==
    IF matched = {} THEN tasks
    ELSE LET d == CHOOSE d \in matched : TRUE
         IN (tasks \ {d}) \cup {MongoSet(d, updates)}

\* update_one with upsert: a document is inserted when nothing matches
edit_task_upsert(user_id, task_id, updates, t) ==
    IF ~ObjectIdValid(task_id)
    THEN [result |-> InvalidId, tasks |-> tasks]
    ELSE LET matched == edit_task_filter(task_id, user_id)
             fresh == Put(Put(edit_task_updates(updates, t), "_id", task_id), "user_id", user_id)
         IN [result |-> "ok",
             tasks |-> IF matched = {} THEN tasks \cup {fresh}
                       ELSE update_one(matched, edit_task_updates(updates, t))]

edit_task(user_id, task_id, updates, t) ==
    IF ~ObjectIdValid(task_id)
    THEN [result |-> InvalidId, tasks |-> tasks]
    ELSE LET matched == edit_task_filter(task_id, user_id)
         IN IF matched = {}
            THEN [result |-> NotFoundOrForeign, tasks |-> tasks]
            ELSE [result |-> "ok",
                  tasks |-> update_one(matched, edit_task_updates(updates, t))]

\* delete_one: the first matching document is removed
delete_task_keep(user_id, task_id) ==
    IF delete_task_filter(task_id, user_id) = {}
    THEN [result |-> NotFoundOrForeign, tasks |-> tasks]
    ELSE [result |-> "ok", tasks |-> tasks]

delete_task(user_id, task_id) ==
    IF ~ObjectIdValid(task_id)
    THEN [result |-> InvalidId, tasks |-> tasks]
    ELSE LET matched == delete_task_filter(task_id, user_id)
         IN IF matched = {}
            THEN [result |-> NotFoundOrForeign, tasks |-> tasks]
            ELSE [result |-> "ok", tasks |-> tasks \ {CHOOSE d \in matched : TRUE}]

\* ------------------------------------------------------------ POST /tasks
\* FastAPI validates the body before the handler runs (422 otherwise).
CreateTask(token, body, t2) ==
    LET user == get_user_by_token(token) IN
    /\ IF ~TaskCreateValid(body)
       THEN /\ resp' = Response("create_task", token, None, None, "422", now, <<>>)
            /\ UNCHANGED <<tasks, nextOid, now>>
       ELSE IF user = None
       THEN /\ resp' = Response("create_task", token, None, None, Unauthenticated, now, <<>>)
            /\ UNCHANGED <<tasks, nextOid, now>>
       ELSE /\ nextOid <= MaxOid
            /\ tasks' = tasks \cup
                 {insert_one(create_task_doc(user, TaskCreateDump(body), now, t2), nextOid)}
            /\ nextOid' = nextOid + 1
            /\ now' = t2
            /\ resp' = Response("create_task", token, user, nextOid, "ok", now, <<>>)
    /\ UNCHANGED <<users, files, disk, nextUuid, issued, wpc, wreq>>

\* ------------------------------------------------- PATCH /tasks/{task_id}
EditTask(token, task_id, body) ==
    LET user == get_user_by_token(token)
        updates == TaskUpdateDump(body)
    IN
    /\ IF ~TaskUpdateValid(body)
       THEN /\ resp' = Response("edit_task", token, None, task_id, "422", now, <<>>)
            /\ tasks' = tasks
       ELSE IF user = None
       THEN /\ resp' = Response("edit_task", token, None, task_id, Unauthenticated, now, <<>>)
            /\ tasks' = tasks
       ELSE IF DOMAIN updates = {}
       THEN /\ resp' = Response("edit_task", token, user, task_id, "No fields to update", now, <<>>)
            /\ tasks' = tasks
       ELSE LET r == edit_task(user, task_id, updates, now) IN
            /\ resp' = Response("edit_task", token, user, task_id, r.result, now, <<>>)
            /\ tasks' = r.tasks
    /\ UNCHANGED <<users, files, disk, nextUuid, nextOid, now, issued, wpc, wreq>>

\* ------------------------------------------------ DELETE /tasks/{task_id}
DeleteTask(token, task_id) ==
    LET user == get_user_by_token(token) IN
    /\ IF user = None
       THEN /\ resp' = Response("delete_task", token, None, task_id, Unauthenticated, now, <<>>)
            /\ tasks' = tasks
       ELSE LET r == delete_task(user, task_id) IN
            /\ resp' = Response("delete_task", token, user, task_id, r.result, now, <<>>)
            /\ tasks' = r.tasks
    /\ UNCHANGED <<users, files, disk, nextUuid, nextOid, now, issued, wpc, wreq>>

\* ------------------------------------ PATCH and DELETE on the worker pool
\* The two handlers as the workers run them: the token lookup
\* (get_user_by_token) is one round trip to the store, the update_one or
\* delete_one of the repository the next, and other workers' round trips come
\* in between.  A worker holds the user the token resolved to.
EditStart(w, token, task_id, body) ==
    LET user == get_user_by_token(token)
        updates == TaskUpdateDump(body)
    IN
    /\ wpc[w] = "idle"
    /\ IF ~TaskUpdateValid(body)
       THEN /\ resp' = Response("edit_task", token, None, task_id, "422", now, <<>>)
            /\ UNCHANGED <<wpc, wreq>>
       ELSE IF user = None
       THEN /\ resp' = Response("edit_task", token, None, task_id, Unauthenticated, now, <<>>)
            /\ UNCHANGED <<wpc, wreq>>
       ELSE IF DOMAIN updates = {}
       THEN /\ resp' = Response("edit_task", token, user, task_id, "No fields to update", now, <<>>)
            /\ UNCHANGED <<wpc, wreq>>
       ELSE /\ wpc' = [wpc EXCEPT ![w] = "update"]
            /\ wreq' = [wreq EXCEPT ![w] =
                           [token |-> token, user |-> user, task_id |-> task_id, updates |-> updates]]
            /\ resp' = resp
    /\ UNCHANGED <<users, tasks, files, disk, nextUuid, nextOid, now, issued>>

EditStore(w) ==
    /\ wpc[w] = "update"
    /\ LET r == edit_task(wreq[w].user, wreq[w].task_id, wreq[w].updates, now) IN
       /\ tasks' = r.tasks
       /\ resp' = Response("edit_task", wreq[w].token, wreq[w].user, wreq[w].task_id,
                           r.result, now, <<>>)
    /\ wpc' = [wpc EXCEPT ![w] = "idle"]
    /\ wreq' = [wreq EXCEPT ![w] = None]
    /\ UNCHANGED <<users, files, disk, nextUuid, nextOid, now, issued>>

DeleteStart(w, token, task_id) ==
    LET user == get_user_by_token(token) IN
    /\ wpc[w] = "idle"
    /\ IF user = None
       THEN /\ resp' = Response("delete_task", token, None, task_id, Unauthenticated, now, <<>>)
            /\ UNCHANGED <<wpc, wreq>>
       ELSE /\ wpc' = [wpc EXCEPT ![w] = "delete"]
            /\ wreq' = [wreq EXCEPT ![w] = [token |-> token, user |-> user, task_id |-> task_id]]
            /\ resp' = resp
    /\ UNCHANGED <<users, tasks, files, disk, nextUuid, nextOid, now, issued>>

DeleteStore(w) ==
    /\ wpc[w] = "delete"
    /\ LET r == delete_task(wreq[w].user, wreq[w].task_id) IN
       /\ tasks' = r.tasks
       /\ resp' = Response("delete_task", wreq[w].token, wreq[w].user, wreq[w].task_id,
                           r.result, now, <<>>)
    /\ wpc' = [wpc EXCEPT ![w] = "idle"]
    /\ wreq' = [wreq EXCEPT ![w] = None]
    /\ UNCHANGED <<users, files, disk, nextUuid, nextOid, now, issued>>

\* ---------------------------------------------------------- GET /api/tasks
\* The Query patterns answer 422 before the handler runs; an exception of
\* get_tasks_view leaves the handler as a 500.
ApiTasks(token, view, date_str) ==
    LET user == get_user_by_token(token) IN
    /\ IF ~(ViewPatternOk(view) /\ DateShapeOk(date_str))
       THEN resp' = Response("api_tasks", token, None, <<view, date_str>>, "422", now, <<>>)
       ELSE IF user = None
       THEN resp' = Response("api_tasks", token, None, <<view, date_str>>, Unauthenticated, now, <<>>)
       ELSE LET r == get_tasks_view(user, view, date_str) IN
            resp' = Response("api_tasks", token, user, <<view, date_str>>, r.result, now, r.list)
    /\ UNCHANGED <<users, tasks, files, disk, nextUuid, nextOid, now, issued, wpc, wreq>>

\* ------------------------------------------------------- file records
\* create_file_record, get_file_record and delete_file_record are called by
\* main.py and defined in no file of src/: a record is the metadata with its
\* owner, looked up and deleted by (owner, file identity).
create_file_record(user_id, meta) == files \cup {Put(meta, "user_id", user_id)}

get_file_record_any_owner(user_id, file_id) ==
    {f \in files : f["file_id"] = file_id}

\* get_file_record: the matching records; the caller gets None when there is
\* none, and otherwise the first of them
get_file_record(user_id, file_id) ==
    {f \in files : f["user_id"] = user_id /\ f["file_id"] = file_id}

delete_file_record(user_id, file_id) ==
    {f \in files : ~(f["user_id"] = user_id /\ f["file_id"] = file_id)}

\* ---------------------------------------------------------- POST /api/files
UploadFile(token) ==
    LET user == get_user_by_token(token)
        file_id == nextUuid
    IN
    /\ IF user = None
       THEN /\ resp' = Response("upload_file", token, None, None, Unauthenticated, now, <<>>)
            /\ UNCHANGED <<files, disk, nextUuid>>
       ELSE /\ nextUuid <= MaxUuid
            /\ nextUuid' = nextUuid + 1
            /\ disk' = disk \cup {<<user, file_id>>}
            /\ files' = create_file_record(user,
                            [file_id |-> file_id, path |-> <<user, file_id>>, created_at |-> now])
            /\ resp' = Response("upload_file", token, user, file_id, "ok", now, <<>>)
    /\ UNCHANGED <<users, tasks, nextOid, now, issued, wpc, wreq>>

\* --------------------------------------------------- GET /api/files/{file_id}
DownloadFile(token, file_id) ==
    LET user == get_user_by_token(token)
        recs == get_file_record(user, file_id)
    IN
    /\ IF user = None
       THEN resp' = Response("download_file", token, None, file_id, Unauthenticated, now, <<>>)
       ELSE IF recs = {}
       THEN resp' = Response("download_file", token, user, file_id, "File not found", now, <<>>)
       ELSE IF (CHOOSE f \in recs : TRUE)["path"] \notin disk
       THEN resp' = Response("download_file", token, user, file_id, "File missing on disk", now, <<>>)
       ELSE resp' = Response("download_file", token, user, file_id, "ok", now, <<>>)
    /\ UNCHANGED <<users, tasks, files, disk, nextUuid, nextOid, now, issued, wpc, wreq>>

\* ------------------------------------------------- DELETE /api/files/{file_id}
\* update_many({"user_id": ..., "attachment.file_id": file_id},
\*             {"$set": {"attachment": None}})
clear_attachment_skip(user_id, file_id) == tasks

clear_attachment(user_id, file_id) ==
    {IF d["user_id"] = user_id /\ d["attachment"] = file_id
        THEN MongoSet(d, ("attachment" :> None)) ELSE d : d \in tasks}

DeleteFile(token, file_id) ==
    LET user == get_user_by_token(token) IN
    /\ IF user = None
       THEN /\ resp' = Response("delete_file", token, None, file_id, Unauthenticated, now, <<>>)
            /\ UNCHANGED <<tasks, files, disk>>
       ELSE IF get_file_record(user, file_id) = {}
       THEN /\ resp' = Response("delete_file", token, user, file_id, "File not found", now, <<>>)
            /\ UNCHANGED <<tasks, files, disk>>
       ELSE /\ disk' = disk \ {(CHOOSE f \in get_file_record(user, file_id) : TRUE)["path"]}
            /\ files' = delete_file_record(user, file_id)
            /\ tasks' = clear_attachment(user, file_id)
            /\ resp' = Response("delete_file", token, user, file_id, "ok", now, <<>>)
    /\ UNCHANGED <<users, nextUuid, nextOid, now, issued, wpc, wreq>>

\* ------------------------------------------------------------ subtasks
\* add_subtask, edit_subtask and delete_subtask are called by main.py and
\* defined in no file of src/: each is one update matched on the task's
\* identity and owner.  A subtask is [subtask_id, title, done].
subtask_filter_any_owner(oid, user_id) ==
    {d \in tasks : d["_id"] = oid}

subtask_filter(oid, user_id) ==
    {d \in tasks : d["_id"] = oid /\ d["user_id"] = user_id}

\* the positions of the subtasks with this identity
SubtaskPositions(list, subtask_id) ==
    {i \in 1..Len(list) : list[i]["subtask_id"] = subtask_id}

RECURSIVE Pull(_, _)
Pull(list, subtask_id) ==
    IF list = <<>> THEN <<>>
    ELSE IF Head(list)["subtask_id"] = subtask_id THEN Pull(Tail(list), subtask_id)
    ELSE <<Head(list)>> \o Pull(Tail(list), subtask_id)

\* add: appends a new subtask (fresh identity, done = false), refreshes updated_at
add_subtask(user_id, task_id, title, subtask_id, t) ==
    LET matched == subtask_filter(task_id, user_id) IN
    IF matched = {}
    THEN [result |-> NotFoundOrForeign, tasks |-> tasks]
    ELSE LET d == CHOOSE d \in matched : TRUE
             sub == [subtask_id |-> subtask_id, title |-> title, done |-> FALSE]
         IN [result |-> "ok",
             tasks |-> update_one(matched,
                          ("subtasks" :> Append(d["subtasks"], sub) @@ "updated_at" :> t))]

\* edit: applies the provided fields to the subtask with this identity (the
\* first one) of the owner-matched task
edit_subtask(user_id, task_id, subtask_id, updates) ==
    LET matched == {d \in subtask_filter(task_id, user_id) :
                       SubtaskPositions(d["subtasks"], subtask_id) # {}} IN
    IF matched = {}
    THEN [result |-> NotFoundOrForeign, tasks |-> tasks]
    ELSE LET d == CHOOSE d \in matched : TRUE
             i == Min(SubtaskPositions(d["subtasks"], subtask_id))
         IN [result |-> "ok",
             tasks |-> update_one(matched,
                          ("subtasks" :> [d["subtasks"] EXCEPT ![i] = MongoSet(@, updates)]))]

\* delete: removes the subtask with this identity from the list; absent is the
\* answer for a matched task that holds no such subtask
delete_subtask(user_id, task_id, subtask_id, absent) ==
    LET matched == subtask_filter(task_id, user_id) IN
    IF matched = {}
    THEN [result |-> NotFoundOrForeign, tasks |-> tasks]
    ELSE LET d == CHOOSE d \in matched : TRUE IN
         IF SubtaskPositions(d["subtasks"], subtask_id) = {}
         THEN [result |-> absent, tasks |-> tasks]
         ELSE [result |-> "ok",
               tasks |-> update_one(matched,
                            ("subtasks" :> Pull(d["subtasks"], subtask_id)))]

\* ------------------------------------------ POST /tasks/{task_id}/subtasks
AddSubtask(token, task_id, title) ==
    LET user == get_user_by_token(token)
        r == add_subtask(user, task_id, title, nextUuid, now)
    IN
    /\ IF user = None
       THEN /\ resp' = Response("add_subtask", token, None, <<task_id, None>>, Unauthenticated, now, <<>>)
            /\ UNCHANGED <<tasks, nextUuid>>
       ELSE IF r.result # "ok"
       THEN /\ resp' = Response("add_subtask", token, user, <<task_id, None>>, r.result, now, <<>>)
            /\ UNCHANGED <<tasks, nextUuid>>
       ELSE /\ nextUuid <= MaxUuid
            /\ nextUuid' = nextUuid + 1
            /\ tasks' = r.tasks
            /\ resp' = Response("add_subtask", token, user, <<task_id, nextUuid>>, "ok", now, <<>>)
    /\ UNCHANGED <<users, files, disk, nextOid, now, issued, wpc, wreq>>

\* ------------------------- PATCH /tasks/{task_id}/subtasks/{subtask_id}
\* payload.model_dump(exclude_unset=True) of SubTaskUpdate: title, done
EditSubtask(token, task_id, subtask_id, body) ==
    LET user == get_user_by_token(token)
        updates == [f \in DOMAIN body \cap {"title", "done"} |-> body[f]]
    IN
    /\ IF user = None
       THEN /\ resp' = Response("edit_subtask", token, None, <<task_id, subtask_id>>, Unauthenticated, now, <<>>)
            /\ tasks' = tasks
       ELSE LET r == edit_subtask(user, task_id, subtask_id, updates) IN
            /\ resp' = Response("edit_subtask", token, user, <<task_id, subtask_id>>, r.result, now, <<>>)
            /\ tasks' = r.tasks
    /\ UNCHANGED <<users, files, disk, nextUuid, nextOid, now, issued, wpc, wreq>>

\* ------------------------ DELETE /tasks/{task_id}/subtasks/{subtask_id}
DeleteSubtask(token, task_id, subtask_id, absent) ==
    LET user == get_user_by_token(token) IN
    /\ IF user = None
       THEN /\ resp' = Response("delete_subtask", token, None, <<task_id, subtask_id>>, Unauthenticated, now, <<>>)
            /\ tasks' = tasks
       ELSE LET r == delete_subtask(user, task_id, subtask_id, absent) IN
            /\ resp' = Response("delete_subtask", token, user, <<task_id, subtask_id>>, r.result, now, <<>>)
            /\ tasks' = r.tasks
    /\ UNCHANGED <<users, files, disk, nextUuid, nextOid, now, issued, wpc, wreq>>

\* ----------------------- POST /tasks and DELETE /api/files on the worker pool
\* create_task as a worker runs it: the token lookup, then the insert_one of
\* the repository.
CreateStart(w, token, body) ==
    LET user == get_user_by_token(token) IN
    /\ wpc[w] = "idle"
    /\ IF ~TaskCreateValid(body)
       THEN /\ resp' = Response("create_task", token, None, None, "422", now, <<>>)
            /\ UNCHANGED <<wpc, wreq>>
       ELSE IF user = None
       THEN /\ resp' = Response("create_task", token, None, None, Unauthenticated, now, <<>>)
            /\ UNCHANGED <<wpc, wreq>>
       ELSE /\ wpc' = [wpc EXCEPT ![w] = "create"]
            /\ wreq' = [wreq EXCEPT ![w] =
                           [token |-> token, user |-> user, task_data |-> TaskCreateDump(body)]]
            /\ resp' = resp
    /\ UNCHANGED <<users, tasks, files, disk, nextUuid, nextOid, now, issued>>

CreateStore(w) ==
    /\ wpc[w] = "create"
    /\ nextOid <= MaxOid
    /\ tasks' = tasks \cup
         {insert_one(create_task_doc(wreq[w].user, wreq[w].task_data, now, now), nextOid)}
    /\ nextOid' = nextOid + 1
    /\ resp' = Response("create_task", wreq[w].token, wreq[w].user, nextOid, "ok", now, <<>>)
    /\ wpc' = [wpc EXCEPT ![w] = "idle"]
    /\ wreq' = [wreq EXCEPT ![w] = None]
    /\ UNCHANGED <<users, files, disk, nextUuid, now, issued>>

\* delete_file as a worker runs it: the token and record lookups, then
\* os.remove with delete_file_record, then the update_many on tasks.
DeleteFileLookup(w, token, file_id) ==
    LET user == get_user_by_token(token) IN
    /\ wpc[w] = "idle"
    /\ IF user = None
       THEN /\ resp' = Response("delete_file", token, None, file_id, Unauthenticated, now, <<>>)
            /\ UNCHANGED <<wpc, wreq>>
       ELSE IF get_file_record(user, file_id) = {}
       THEN /\ resp' = Response("delete_file", token, user, file_id, "File not found", now, <<>>)
            /\ UNCHANGED <<wpc, wreq>>
       ELSE /\ wpc' = [wpc EXCEPT ![w] = "unlink"]
            /\ wreq' = [wreq EXCEPT ![w] =
                           [token |-> token, user |-> user, file_id |-> file_id,
                            path |-> (CHOOSE f \in get_file_record(user, file_id) : TRUE)["path"]]]
            /\ resp' = resp
    /\ UNCHANGED <<users, tasks, files, disk, nextUuid, nextOid, now, issued>>

DeleteFileRecord(w) ==
    /\ wpc[w] = "unlink"
    /\ disk' = disk \ {wreq[w].path}
    /\ files' = delete_file_record(wreq[w].user, wreq[w].file_id)
    /\ wpc' = [wpc EXCEPT ![w] = "clear"]
    /\ UNCHANGED <<users, tasks, nextUuid, nextOid, now, issued, wreq, resp>>

DeleteFileClear(w) ==
    /\ wpc[w] = "clear"
    /\ tasks' = clear_attachment(wreq[w].user, wreq[w].file_id)
    /\ resp' = Response("delete_file", wreq[w].token, wreq[w].user, wreq[w].file_id, "ok", now, <<>>)
    /\ wpc' = [wpc EXCEPT ![w] = "idle"]
    /\ wreq' = [wreq EXCEPT ![w] = None]
    /\ UNCHANGED <<users, files, disk, nextUuid, nextOid, now, issued>>

\* ------------------------------------------------------- request inputs
\* the empty string, the tokens issued so far, and strings never issued
Tokens == {EmptyToken} \cup DOMAIN issued \cup {MaxUuid + 1}

TaskIds == 0..MaxOid

\* Bodies carrying keys that TaskCreate and TaskUpdate do not declare
CreateBodies ==
    { ("title" :> 8),
      ("title" :> 8 @@ "user_id" :> 1 @@ "_id" :> 9 @@ "done" :> TRUE
         @@ "created_at" :> 7 @@ "updated_at" :> 7),
      ("priority" :> 2) }

EditBodies ==
    { <<>>,
      ("priority" :> 4 @@ "user_id" :> 1 @@ "_id" :> 9 @@ "created_at" :> 7) }

\* Bodies for the priority and timestamp fields, sent with alice's token
StampTokens == {1}

StampCreateBodies ==
    { ("title" :> 8),
      ("title" :> 8 @@ "done" :> TRUE @@ "created_at" :> 7 @@ "updated_at" :> 7),
      ("title" :> 8 @@ "priority" :> 6) }

StampEditBodies ==
    { ("title" :> 8),
      ("priority" :> None),
      ("priority" :> 4 @@ "created_at" :> 7),
      ("priority" :> 0) }

\* 2026-01-20T18:00 and 2026-02-01T00:00
ViewCreateBodies ==
    { ("title" :> 8),
      ("title" :> 8 @@ "due_date" :> Instant(2026, 1, 20, 18)),
      ("title" :> 8 @@ "due_date" :> Instant(2026, 2, 1, 0)) }

Views == {"day", "week", "month", "year", "decade"}

DateStrings == { <<2026, 1, 20>>, <<2026, 2, 1>>, <<2026, 13, 1>>, <<>> }

\* the uuid strings that are no token: those uploads draw, and one never drawn
FileIds == {u \in 1..(MaxUuid + 1) : u \notin DOMAIN issued}

FileCreateBodies ==
    { ("title" :> 8) } \cup { ("title" :> 8 @@ "attachment" :> f) : f \in FileIds }

FileEditBodies == { ("done" :> TRUE) }

\* ------------------------------------------------------- specifications
\* The clock moves on between two requests.
Tick ==
    /\ now < MaxTime
    /\ now' = now + 1
    /\ UNCHANGED <<users, tasks, files, disk, nextUuid, nextOid, issued, wpc, wreq, resp>>

NextAuth ==
    \/ \E u \in Usernames, p \in Passwords : Registration(u, p)
    \/ \E w \in Workers, u \in Usernames, p \in Passwords : RegCheck(w, u, p)
    \/ \E w \in Workers : RegInsert(w)
    \/ \E u \in Usernames, p \in LoginPasswords : Login(u, p)

SpecAuth == Init /\ [][NextAuth]_vars

Next ==
    \/ \E tok \in Tokens, b \in CreateBodies, t2 \in ClockReads(now) : CreateTask(tok, b, t2)
    \/ \E tok \in Tokens, id \in TaskIds, b \in EditBodies : EditTask(tok, id, b)
    \/ \E tok \in Tokens, id \in TaskIds : DeleteTask(tok, id)

Spec == InitSession /\ [][Next]_vars

NextStamp ==
    \/ Tick
    \/ \E tok \in StampTokens, b \in StampCreateBodies, t2 \in ClockReads(now) :
            CreateTask(tok, b, t2)
    \/ \E tok \in StampTokens, id \in TaskIds, b \in StampEditBodies : EditTask(tok, id, b)
    \/ \E tok \in StampTokens, id \in TaskIds : DeleteTask(tok, id)

SpecStamp == InitSession /\ [][NextStamp]_vars

NextView ==
    \/ \E tok \in Tokens, b \in ViewCreateBodies, t2 \in ClockReads(now) : CreateTask(tok, b, t2)
    \/ \E tok \in Tokens, v \in Views, ds \in DateStrings : ApiTasks(tok, v, ds)

SpecView == InitSession /\ [][NextView]_vars

NextFiles ==
    \/ Tick
    \/ \E tok \in Tokens : UploadFile(tok)
    \/ \E tok \in Tokens, b \in FileCreateBodies, t2 \in ClockReads(now) : CreateTask(tok, b, t2)
    \/ \E tok \in Tokens, id \in TaskIds, b \in FileEditBodies : EditTask(tok, id, b)
    \/ \E tok \in Tokens, f \in FileIds : DeleteFile(tok, f)

SpecFiles == InitSession /\ [][NextFiles]_vars

\* A task's life: created, listed, updated, deleted, by either user
LifeTokens == {1, 2}

\* a task with no due date, and one due 2026-01-20T18:00
LifeCreateBodies ==
    { ("title" :> 8),
      ("title" :> 8 @@ "due_date" :> Instant(2026, 1, 20, 18)) }

LifeEditBodies == { ("done" :> TRUE) }

LifeViews == {"day", "month"}

LifeDates == { <<2026, 1, 20>> }

NextLife ==
    \/ \E tok \in LifeTokens, b \in LifeCreateBodies, t2 \in ClockReads(now) :
            CreateTask(tok, b, t2)
    \/ \E tok \in LifeTokens, id \in TaskIds, b \in LifeEditBodies : EditTask(tok, id, b)
    \/ \E tok \in LifeTokens, id \in TaskIds : DeleteTask(tok, id)
    \/ \E tok \in LifeTokens, v \in LifeViews, ds \in LifeDates : ApiTasks(tok, v, ds)

SpecLife == InitSession /\ [][NextLife]_vars

\* Attachments: uploaded, pointed at by tasks, fetched and deleted by either
\* user, all within one reading of the clock
AttachTokens == {1, 2}

AttachCreateBodies == { ("title" :> 8 @@ "attachment" :> f) : f \in FileIds }

AttachEditBodies == { ("attachment" :> f) : f \in FileIds }

NextAttach ==
    \/ \E tok \in AttachTokens : UploadFile(tok)
    \/ \E tok \in AttachTokens, b \in AttachCreateBodies : CreateTask(tok, b, now)
    \/ \E tok \in AttachTokens, id \in TaskIds, b \in AttachEditBodies : EditTask(tok, id, b)
    \/ \E tok \in AttachTokens, f \in FileIds : DownloadFile(tok, f)
    \/ \E tok \in AttachTokens, f \in FileIds : DeleteFile(tok, f)

SpecAttach == InitSession /\ [][NextAttach]_vars

\* Subtasks: sent with a task, and added, edited and deleted one at a time, by
\* either user, all within one reading of the clock
SubTokens == {1, 2}

\* a subtask_id the caller chose: a string no uuid4 draw of the model produces
CallerSubtaskId == 7

\* a subtask as a request body spells it, every field of SubTask given
Sub(subtask_id) == [subtask_id |-> subtask_id, title |-> 8, done |-> FALSE]

SubCreateBodies == { ("title" :> 8 @@ "subtasks" :> << Sub(CallerSubtaskId) >>) }

\* bodies whose subtasks list names one subtask_id twice
DupCreateBodies ==
    { ("title" :> 8),
      ("title" :> 8 @@ "subtasks" :> << Sub(CallerSubtaskId), Sub(CallerSubtaskId) >>) }

DupEditBodies ==
    { ("subtasks" :> << Sub(CallerSubtaskId) >>),
      ("subtasks" :> << Sub(CallerSubtaskId), Sub(CallerSubtaskId) >>) }

\* the path strings that spell an ObjectId
SubTaskIds == 1..MaxOid

\* the subtask_id of a path: one a task holds until it is deleted from it
SubtaskIds == {CallerSubtaskId}

SubtaskUpdates == { ("done" :> TRUE) }

\* the two answers delete_subtask may give for a subtask the task does not hold
DeleteAbsentResults == {"ok", NotFoundOrForeign}

NextSub ==
    \/ \E tok \in SubTokens, b \in SubCreateBodies : CreateTask(tok, b, now)
    \/ \E tok \in SubTokens, id \in SubTaskIds : AddSubtask(tok, id, 8)
    \/ \E tok \in SubTokens, id \in SubTaskIds, sid \in SubtaskIds, b \in SubtaskUpdates :
            EditSubtask(tok, id, sid, b)
    \/ \E tok \in SubTokens, id \in SubTaskIds, sid \in SubtaskIds, a \in DeleteAbsentResults :
            DeleteSubtask(tok, id, sid, a)

SpecSub == InitSession /\ [][NextSub]_vars

\* Subtask lists as create, update and add leave them
NextSubDup ==
    \/ \E tok \in SubTokens, b \in DupCreateBodies : CreateTask(tok, b, now)
    \/ \E tok \in SubTokens, id \in SubTaskIds, b \in DupEditBodies : EditTask(tok, id, b)
    \/ \E tok \in SubTokens, id \in SubTaskIds : AddSubtask(tok, id, 8)

SpecSubDup == InitSession /\ [][NextSubDup]_vars

\* The repository's listing called with any view string, over either user's tasks
RepoViews == Views \cup {"Month", ""}

RepoUsers == {1, 2}

NextRepoView ==
    \/ \E tok \in LifeTokens, b \in ViewCreateBodies : CreateTask(tok, b, now)
    \/ \E u \in RepoUsers, v \in RepoViews, ds \in DateStrings : GetTasksView(u, v, ds)

SpecRepoView == InitSession /\ [][NextRepoView]_vars

\* The view resolver over anchor dates: leap and common years, the last year
\* of the calendar, January, February and December, every day number
AnchorYears == {2023, 2024, MaxYear}

AnchorMonths == {1, 2, 12}

AnchorDates == {<<y, m, d>> : y \in AnchorYears, m \in AnchorMonths, d \in 1..31}

NextResolve == \E v \in Views, ds \in AnchorDates : ViewResolve(v, ds)

SpecResolve == InitSession /\ [][NextResolve]_vars

\* Updates and deletes of both users on the worker pool, over alice's tasks
RaceCreateTokens == {1}

RaceTokens == {1, 2}

RaceCreateBodies == { ("title" :> 8) }

NextRace ==
    \/ \E tok \in RaceCreateTokens, b \in RaceCreateBodies : CreateTask(tok, b, now)
    \/ \E w \in Workers, tok \in RaceTokens, id \in SubTaskIds, b \in LifeEditBodies :
            EditStart(w, tok, id, b)
    \/ \E w \in Workers : EditStore(w)
    \/ \E w \in Workers, tok \in RaceTokens, id \in SubTaskIds : DeleteStart(w, tok, id)
    \/ \E w \in Workers : DeleteStore(w)

SpecRace == InitSession /\ [][NextRace]_vars

\* One owner's uploads, attachment deletions, creates and updates on the
\* worker pool.  A request names as attachment a file the caller has a record
\* of when the request arrives.
FileRaceTokens == {1}

\* the files a user has a record of
RecordsOf(user) == {r["file_id"] : r \in {r \in files : r["user_id"] = user}}

NextFileRace ==
    \/ \E tok \in FileRaceTokens : UploadFile(tok)
    \/ \E w \in Workers, tok \in FileRaceTokens :
          \E f \in RecordsOf(get_user_by_token(tok)) :
            CreateStart(w, tok, ("title" :> 8 @@ "attachment" :> f))
    \/ \E w \in Workers : CreateStore(w)
    \/ \E w \in Workers, tok \in FileRaceTokens, id \in SubTaskIds :
          \E f \in RecordsOf(get_user_by_token(tok)) :
            EditStart(w, tok, id, ("attachment" :> f))
    \/ \E w \in Workers : EditStore(w)
    \/ \E w \in Workers, tok \in FileRaceTokens, f \in FileIds : DeleteFileLookup(w, tok, f)
    \/ \E w \in Workers : DeleteFileRecord(w)
    \/ \E w \in Workers : DeleteFileClear(w)

SpecFileRace == InitSession /\ [][NextFileRace]_vars

\* ------------------------------------------------------------- claims
\* the task with this _id belongs to somebody else
Foreign(user, task_id) == \E d \in tasks : d["_id"] = task_id /\ d["user_id"] # user

TaskById(task_id) == CHOOSE d \in tasks : d["_id"] = task_id

OwnerIds(T) == {<<d["_id"], d["user_id"]>> : d \in T}

\* the tokens a login has issued that are still the token of the user they
\* were issued to
CurrentTokens == {t \in DOMAIN issued : users[issued[t]].token = t}

LatestToken(user) == Max({t \in DOMAIN issued : issued[t] = user})

DueToday(d, date_str) ==
    /\ d["due_date"] # None
    /\ d["due_date"] >= Instant(date_str[1], date_str[2], date_str[3], 0)
    /\ d["due_date"] < Instant(date_str[1], date_str[2], date_str[3], 0) + 24

Occurrences(list, x) == Cardinality({i \in 1..Len(list) : list[i] = x})

\* C1: an update or delete that reaches the repository with an owner other than
\* the task's owner is answered NotFoundOrForeign and leaves every stored task,
\* updated_at included, as it was.
C1_ForeignUpdateDeleteRejected ==
    [][ ( /\ resp'.op \in {"edit_task", "delete_task"}
          /\ resp'.user # None
          /\ resp'.result # "No fields to update"
          /\ Foreign(resp'.user, resp'.id) )
        => (resp'.result = NotFoundOrForeign /\ tasks' = tasks) ]_vars

C1_Witness ==
    /\ resp.op = "edit_task"
    /\ resp.result = NotFoundOrForeign
    /\ Foreign(resp.user, resp.id)
    /\ Cardinality(tasks) = 2

\* C2: the empty token, and every token that is not the token a login issued to
\* some user and that user still holds, resolves to no user.
C2_BadTokenUnauthenticated ==
    \A tok \in Tokens :
        (tok = EmptyToken \/ tok \notin CurrentTokens) => get_user_by_token(tok) = None

\* C3: of the tokens issued to a user only the most recently issued one resolves,
\* and it resolves to that user; every earlier one resolves to nobody.
C3_SingleValidToken ==
    \A t \in DOMAIN issued :
        get_user_by_token(t) = IF t = LatestToken(issued[t]) THEN issued[t] ELSE None

C3_Witness ==
    \E t1 \in DOMAIN issued : \E t2 \in DOMAIN issued :
        /\ t1 < t2
        /\ issued[t1] = issued[t2]
        /\ get_user_by_token(t1) = None
        /\ get_user_by_token(t2) = issued[t2]

\* C4: a day listing for the calendar day of a stored task's due date is answered
\* without error and holds that task exactly once.
C4_DayViewListsCreatedTask ==
    (resp.op = "api_tasks" /\ resp.user # None /\ resp.id[1] = "day"
        /\ StrptimeOk(resp.id[2])) =>
    /\ resp.result = "ok"
    /\ \A d \in tasks :
          (d["user_id"] = resp.user /\ DueToday(d, resp.id[2]))
             => Occurrences(resp.list, d["_id"]) = 1

\* C5: no two stored users have the same username, whatever the interleaving of
\* the workers' registration requests.
C5_UsernamesUnique ==
    \A i \in 1..Len(users) : \A j \in 1..Len(users) :
        users[i].username = users[j].username => i = j

\* C6: the priority of every stored task is an integer in 1..5.
C6_PriorityInRange == \A d \in tasks : PriorityOk(d["priority"])

\* C7: updated_at >= created_at for every stored task, and no step changes the
\* created_at of a task that stays stored, whatever the update body carries.
C7_CreatedAtImmutable ==
    /\ [](\A d \in tasks : d["updated_at"] >= d["created_at"])
    /\ [][\A d \in tasks : \A e \in tasks' :
            d["_id"] = e["_id"] => e["created_at"] = d["created_at"]]_vars

C7_Witness ==
    /\ resp.op = "edit_task"
    /\ resp.result = "ok"
    /\ TaskById(resp.id)["priority"] = 4
    /\ TaskById(resp.id)["updated_at"] > TaskById(resp.id)["created_at"]

\* C8: the task a create request persists has the caller as owner, a fresh
\* identity, done = false and created_at = updated_at = the time of creation,
\* whatever the body carries; absent fields get priority 3, tags [], subtasks [].
C8_CreateStamps ==
    (resp.op = "create_task" /\ resp.result = "ok") =>
        /\ Cardinality({d \in tasks : d["_id"] = resp.id}) = 1
        /\ LET d == TaskById(resp.id) IN
           /\ d["user_id"] = resp.user
           /\ d["done"] = FALSE
           /\ d["priority"] = PriorityDefault
           /\ d["tags"] = <<>>
           /\ d["subtasks"] = <<>>
           /\ d["created_at"] = resp.at
           /\ d["updated_at"] = resp.at

\* C9: no update changes the owner or the identity of a stored task: the
\* (identity, owner) pairs of the store change only by a create adding the pair
\* of the new task and its caller, or by a delete.
C9_OwnerAndIdImmutable ==
    [][/\ OwnerIds(tasks') \ OwnerIds(tasks) \subseteq
            {p \in {<<resp'.id, resp'.user>>} : resp'.op = "create_task"}
       /\ (resp'.op = "edit_task" => OwnerIds(tasks') = OwnerIds(tasks))]_vars

C9_Witness ==
    /\ resp.op = "edit_task"
    /\ resp.result = "ok"
    /\ resp.user = 2
    /\ \E d \in tasks :
          d["_id"] = resp.id /\ d["user_id"] = 2 /\ d["priority"] = 4

\* C10: a step that changes a stored task leaves it with updated_at equal to
\* the time of that step.
C10_UpdatedAtRefreshed ==
    [][\A e \in tasks' \ tasks :
          (\E d \in tasks : d["_id"] = e["_id"]) => e["updated_at"] = resp'.at]_vars

\* a path string that is not 24 hex digits
NotAnObjectId(task_id) == task_id < 1

\* C11: an update or delete that reaches the repository with a task identity
\* that is not of the shape of an identity is answered InvalidId and leaves
\* every stored task as it was, whoever the caller and whatever the body.
C11_InvalidIdRejected ==
    [][ ( /\ resp'.op \in {"edit_task", "delete_task"}
          /\ resp'.user # None
          /\ resp'.result # "No fields to update"
          /\ NotAnObjectId(resp'.id) )
        => (resp'.result = InvalidId /\ tasks' = tasks) ]_vars

C11_Witness ==
    /\ resp.op = "edit_task"
    /\ resp.result = InvalidId
    /\ NotAnObjectId(resp.id)
    /\ \E d \in tasks : d["user_id"] = resp.user

\* an identity the collection has handed out (insert_one numbers its inserts)
\* and no stored task has: the identity of a deleted task
Gone(task_id) ==
    /\ task_id \in 1..(nextOid - 1)
    /\ ~\E d \in tasks : d["_id"] = task_id

\* the same, of the state a step leads to
GoneNext(task_id) ==
    /\ task_id \in 1..(nextOid' - 1)
    /\ ~\E d \in tasks' : d["_id"] = task_id

PointsAt(d, file_id) == d["attachment"] = file_id

\* C13: when a file deletion answers Ok the caller had a record of that file,
\* the record is gone, every task of the caller that pointed at the file has its
\* attachment empty and is otherwise as it was, and every other task (pointing
\* at another file, or of another owner) and every other record is unchanged.
C13_DeleteFileClearsPointers ==
    [][ (resp'.op = "delete_file" /\ resp'.result = "ok") =>
          /\ \E r \in files : r["user_id"] = resp'.user /\ r["file_id"] = resp'.id
          /\ ~\E r \in files' : r["user_id"] = resp'.user /\ r["file_id"] = resp'.id
          /\ files' \subseteq files
          /\ \A r \in files \ files' : r["user_id"] = resp'.user /\ r["file_id"] = resp'.id
          /\ \A d \in tasks' : ~(d["user_id"] = resp'.user /\ PointsAt(d, resp'.id))
          /\ \A d \in tasks :
                IF d["user_id"] = resp'.user /\ PointsAt(d, resp'.id)
                THEN Put(d, "attachment", None) \in tasks'
                ELSE d \in tasks'
          /\ Cardinality(tasks') = Cardinality(tasks) ]_vars

C13_Witness ==
    /\ resp.op = "delete_file"
    /\ resp.result = "ok"
    /\ \E d \in tasks : d["user_id"] = resp.user /\ d["attachment"] = None
    /\ \E d \in tasks : d["user_id"] # resp.user /\ PointsAt(d, resp.id)

\* a record of this file exists and belongs to somebody else
ForeignFile(user, file_id) ==
    \E r \in files : r["file_id"] = file_id /\ r["user_id"] # user

\* C15: a fetch or a delete of a file whose record belongs to another owner is
\* answered NotFound and leaves every record, every blob and every task as it was.
C15_ForeignFileNotResolved ==
    [][ ( /\ resp'.op \in {"download_file", "delete_file"}
          /\ resp'.user # None
          /\ ForeignFile(resp'.user, resp'.id) )
        => ( /\ resp'.result = "File not found"
             /\ files' = files
             /\ disk' = disk
             /\ tasks' = tasks ) ]_vars

C15_Witness ==
    /\ resp.op = "delete_file"
    /\ resp.result = "File not found"
    /\ ForeignFile(resp.user, resp.id)
    /\ \E d \in tasks : d["user_id"] # resp.user /\ PointsAt(d, resp.id)
    /\ \E p \in disk : p[2] = resp.id

\* C14: a subtask add, edit or delete on a task of another owner, and a subtask
\* edit naming a subtask that a task of the caller does not hold, are answered
\* NotFoundOrForeign and leave every stored task, its subtask list included, as
\* it was.
C14_ForeignSubtaskOpsRejected ==
    [][ /\ ( /\ resp'.op \in {"add_subtask", "edit_subtask", "delete_subtask"}
              /\ resp'.user # None
              /\ Foreign(resp'.user, resp'.id[1]) )
            => (resp'.result = NotFoundOrForeign /\ tasks' = tasks)
        /\ ( /\ resp'.op = "edit_subtask"
              /\ resp'.user # None
              /\ \E d \in tasks :
                    /\ d["_id"] = resp'.id[1]
                    /\ d["user_id"] = resp'.user
                    /\ \A i \in 1..Len(d["subtasks"]) :
                          d["subtasks"][i]["subtask_id"] # resp'.id[2] )
            => (resp'.result = NotFoundOrForeign /\ tasks' = tasks) ]_vars

C14_Witness ==
    /\ resp.op = "edit_subtask"
    /\ resp.result = NotFoundOrForeign
    /\ Foreign(resp.user, resp.id[1])
    /\ SubtaskPositions(TaskById(resp.id[1])["subtasks"], resp.id[2]) # {}
    /\ \E d \in tasks : d["subtasks"] # <<>> /\ d["subtasks"][1]["done"]

\* C20: no stored task holds two subtasks with the same identity.
C20_SubtaskIdsUnique ==
    \A d \in tasks :
        \A i \in 1..Len(d["subtasks"]) : \A j \in 1..Len(d["subtasks"]) :
            d["subtasks"][i]["subtask_id"] = d["subtasks"][j]["subtask_id"] => i = j

\* ---- the listing and the view resolver
FourViews == {"day", "week", "month", "year"}

\* date.weekday() of the day with this ordinal: Monday is 0
Weekday(ordinal) == (ordinal + 6) % 7

\* the range the view table gives for an anchor date, by day counts
ExpectedRange(view, date_str) ==
    LET y == date_str[1]
        m == date_str[2]
        d == date_str[3]
        monday == ToOrdinal(y, m, d) - Weekday(ToOrdinal(y, m, d))
    IN IF view = "day"
       THEN [start |-> Instant(y, m, d, 0), end |-> Instant(y, m, d, 0) + 24]
       ELSE IF view = "week"
       THEN [start |-> monday * 24, end |-> (monday + 7) * 24]
       ELSE IF view = "month"
       THEN [start |-> Instant(y, m, 1, 0),
             end |-> Instant(y, m, 1, 0) + 24 * DaysInMonth(y, m)]
       ELSE [start |-> Instant(y, 1, 1, 0),
             end |-> Instant(y, 1, 1, 0) + 24 * (IF IsLeap(y) THEN 366 ELSE 365)]

\* the tasks of a user due within the range of a view
DueIn(user, view, date_str) ==
    {d \in tasks : /\ d["user_id"] = user
                   /\ d["due_date"] # None
                   /\ d["due_date"] >= ExpectedRange(view, date_str).start
                   /\ d["due_date"] < ExpectedRange(view, date_str).end}

\* a view string that is not empty and whose lower-case form is none of the four
Unrecognised(view) == view # "" /\ Lower(view) \notin FourViews

C17_ViewListsExactlyDue ==
    ( /\ resp.op = "get_tasks_view"
      /\ resp.id[1] \in FourViews
      /\ StrptimeOk(resp.id[2]) )
    => /\ resp.result = "ok"
       /\ {resp.list[i] : i \in 1..Len(resp.list)} =
             {d["_id"] : d \in DueIn(resp.user, resp.id[1], resp.id[2])}
       /\ Len(resp.list) = Cardinality(DueIn(resp.user, resp.id[1], resp.id[2]))
       /\ \A i \in 1..Len(resp.list) : \A j \in 1..Len(resp.list) :
             i < j => TaskById(resp.list[i])["due_date"] <= TaskById(resp.list[j])["due_date"]

\* C18: for every anchor date the month view resolves to [first day of the
\* month, first day of the next month) and the year view to [Jan 1, Jan 1 of
\* the next year).
C18_MonthYearRanges ==
    ( /\ resp.op = "resolve"
      /\ resp.id[1] \in {"month", "year"}
      /\ StrptimeOk(resp.id[2]) )
    => /\ resp.result = "ok"
       /\ resp.list = << ExpectedRange(resp.id[1], resp.id[2]).start,
                         ExpectedRange(resp.id[1], resp.id[2]).end >>

\* C19: for every anchor date the week view resolves to [Monday of the anchor's
\* week, that Monday + 7 days).
C19_WeekRange ==
    ( /\ resp.op = "resolve"
      /\ resp.id[1] = "week"
      /\ StrptimeOk(resp.id[2]) )
    => /\ resp.result = "ok"
       /\ resp.list = << ExpectedRange("week", resp.id[2]).start,
                         ExpectedRange("week", resp.id[2]).end >>

\* C21: no two stored tasks point at the same file, and no task points at a
\* file whose record belongs to an owner other than the task's.
C21_AttachmentPointersExclusive ==
    /\ \A d \in tasks : \A e \in tasks :
          (d["attachment"] # None /\ d["attachment"] = e["attachment"]) => d = e
    /\ \A d \in tasks : d["attachment"] # None => ~ForeignFile(d["user_id"], d["attachment"])

\* the stored task with this identity, when the user is its owner
Owned(user, task_id) == {d \in tasks : d["_id"] = task_id /\ d["user_id"] = user}

\* the worker sends the answer of its update (delete) in this step
Answers(w, pc) == wpc[w] = pc /\ wpc'[w] = "idle"

\* C22: under every interleaving of the workers' updates and deletes, the step
\* that answers an update answers success exactly when the task is stored with
\* the caller as owner at that step, changes that task alone and adds none; the
\* step that answers a delete answers success exactly when the task is stored
\* with the caller as owner at that step and removes it; otherwise the answer is
\* NotFoundOrForeign and nothing changes.  A deleted task never comes back, so
\* of several deletes of one task exactly one answers success.
C22_AtomicMatchAndMutate ==
    [][ /\ \A w \in Workers : Answers(w, "update") =>
              LET m == Owned(wreq[w].user, wreq[w].task_id) IN
              /\ resp'.op = "edit_task"
              /\ resp'.result = IF m = {} THEN NotFoundOrForeign ELSE "ok"
              /\ m = {} => tasks' = tasks
              /\ {d["_id"] : d \in tasks'} = {d["_id"] : d \in tasks}
              /\ \A d \in tasks : d \notin m => d \in tasks'
        /\ \A w \in Workers : Answers(w, "delete") =>
              LET m == Owned(wreq[w].user, wreq[w].task_id) IN
              /\ resp'.op = "delete_task"
              /\ resp'.result = IF m = {} THEN NotFoundOrForeign ELSE "ok"
              /\ tasks' = tasks \ m
        /\ \A id \in 1..(nextOid - 1) : Gone(id) => GoneNext(id) ]_vars

\* one of two deletes of a task in flight together has answered success, the
\* other is still to reach the store
C22_Witness ==
    /\ resp.op = "delete_task"
    /\ resp.result = "ok"
    /\ Gone(resp.id)
    /\ \E w \in Workers :
          /\ wpc[w] = "delete"
          /\ wreq[w].task_id = resp.id
          /\ wreq[w].user = resp.user

\* a file identity an upload drew whose record is no longer stored
DeletedFile(file_id) ==
    /\ file_id \in 1..(nextUuid - 1)
    /\ file_id \notin DOMAIN issued
    /\ ~\E r \in files : r["file_id"] = file_id

\* C23: whenever no request is in flight, no stored task points at a file
\* whose record has been deleted.
C23_NoDanglingPointerAtRest ==
    (\A w \in Workers : wpc[w] = "idle") =>
        \A d \in tasks : d["attachment"] # None => ~DeletedFile(d["attachment"])

====
